---- MODULE Spec2Model ----
(***************************************************************************)
(* Model of pelican_bibtex.py: the generator_init handler add_publications *)
(* (parse a BibTeX file, format every entry with CustomStyle, assemble the *)
(* 8-tuples, sort by year descending, store them in the context) and the   *)
(* three CustomStyle templates.                                            *)
(*                                                                         *)
(* Strings are sequences of one-character strings, so that Python's string *)
(* comparison, dashify and add_period are computed and not assumed.  Rich  *)
(* text is a sequence of such characters and of markup tokens ("@newline", *)
(* "@strong[", ...), which the HTML backend renders.  Letter case changes  *)
(* (capfirst) are not modelled.                                            *)
(*                                                                         *)
(* The plugin runs on Python 2 and 3 (lines 44-47), which differ in how    *)
(* None compares with a string; py is the interpreter's major version.     *)
(* pybtex is "none" (not installed), "partial" (the module level imports   *)
(* succeed, one of the imports inside add_publications fails) or "full".   *)
(* CustomStyle inherits plain.Style: the helpers it calls and the order in *)
(* which format_entries visits the entries are those of that style.        *)
(***************************************************************************)
EXTENDS Integers, Sequences, FiniteSets, TLC

(* ---------------------------------------------------------------- bounds *)
MaxEntries == 3
MaxFires == 2

(* --------------------------------------------------------------- strings *)
\* characters in code point order, as Python compares str
Chars == <<" ", "&", "-", ".", "0", "1", "2", "3", "4", "5", "6", "7", "8", "9", "?",
           "A", "B", "F", "J", "O", "Z", "a", "d", "e", "l", "o", "r", "z">>

CodePoint(c) == CHOOSE i \in 1..Len(Chars) : Chars[i] = c

Min2(a, b) == IF a < b THEN a ELSE b

\* str.__lt__ : lexicographic on code points, a proper prefix is smaller
StrLess(a, b) ==
  \E i \in 1..(Min2(Len(a), Len(b)) + 1) :
     /\ \A j \in 1..(i - 1) : a[j] = b[j]
     /\ \/ i > Len(a) /\ i <= Len(b)
        \/ i <= Len(a) /\ i <= Len(b) /\ CodePoint(a[i]) < CodePoint(b[i])

\* the value dict.get returns for a missing field
None == <<"@None">>

RECURSIVE Flatten(_)
Flatten(ss) == IF ss = <<>> THEN <<>> ELSE Head(ss) \o Flatten(Tail(ss))

(* ------------------------------------------------------ template engine  *)
\* a template node evaluates to a text or raises FieldIsMissing
Raise == [ok |-> FALSE, t |-> <<>>]
Text(t) == [ok |-> TRUE, t |-> t]

field(e, f) == IF f \in DOMAIN e.fields THEN Text(e.fields[f]) ELSE Raise

optional(r) == IF r.ok THEN r ELSE Text(<<>>)

optional_field(e, f) == optional(field(e, f))

RECURSIVE JoinTexts(_, _, _, _)
JoinTexts(ts, sep, sep2, last_sep) ==
  IF Len(ts) = 0 THEN <<>>
  ELSE IF Len(ts) = 1 THEN ts[1]
  ELSE IF Len(ts) = 2 THEN ts[1] \o sep2 \o ts[2]
  ELSE LET n == Len(ts)
           RECURSIVE Mid(_)
           Mid(i) == IF i >= n THEN <<>> ELSE sep \o ts[i] \o Mid(i + 1)
       IN ts[1] \o Mid(2) \o last_sep \o ts[n]

\* join: a failing child fails the node, empty children are dropped
joinx(sep, sep2, last_sep, parts) ==
  IF \E i \in 1..Len(parts) : ~parts[i].ok THEN Raise
  ELSE Text(JoinTexts(SelectSeq([i \in 1..Len(parts) |-> parts[i].t],
                                LAMBDA t : t # <<>>),
                      sep, sep2, last_sep))

join(sep, parts) == joinx(sep, sep, sep, parts)

words(parts) == join(<<" ">>, parts)

IsMarkup(tok) == tok \in {"@strong[", "]strong@", "@em[", "]em@"}

RECURSIVE LastChar(_)
LastChar(t) ==
  IF t = <<>> THEN ""
  ELSE IF IsMarkup(t[Len(t)]) THEN LastChar(SubSeq(t, 1, Len(t) - 1))
  ELSE t[Len(t)]

\* Text.add_period: nothing is added to an empty or a terminated text
add_period(t) ==
  IF t = <<>> \/ LastChar(t) \in {".", "?", "!"} THEN t ELSE Append(t, ".")

sentence(parts) ==
  LET r == join(<<",", " ">>, parts)
  IN IF r.ok THEN Text(add_period(r.t)) ELSE Raise

\* first nonempty child; a child that raises before one is found raises
RECURSIVE first_of(_)
first_of(parts) ==
  IF parts = <<>> THEN Text(<<>>)
  ELSE IF ~Head(parts).ok THEN Raise
  ELSE IF Head(parts).t # <<>> THEN Head(parts)
  ELSE first_of(Tail(parts))

TagOpen(name) == IF name = "strong" THEN "@strong[" ELSE "@em["

TagClose(name) == IF name = "strong" THEN "]strong@" ELSE "]em@"

tag(name, r) ==
  IF ~r.ok THEN Raise
  ELSE IF r.t = <<>> THEN r
  ELSE Text(<<TagOpen(name)>> \o r.t \o <<TagClose(name)>>)

Symbol(name) == Text(<<IF name = "newline" THEN "@newline"
                       ELSE IF name = "ndash" THEN "@ndash" ELSE "@nbsp">>)

toplevel(parts) == join(Symbol("newline").t, parts)

\* dashify: every run of hyphens becomes the ndash symbol
RECURSIVE dashify(_)
dashify(s) ==
  IF s = <<>> THEN <<>>
  ELSE IF Head(s) = "-"
       THEN IF Len(s) > 1 /\ s[2] = "-" THEN dashify(Tail(s))
            ELSE <<"@ndash">> \o dashify(Tail(s))
  ELSE <<Head(s)>> \o dashify(Tail(s))

pages(e) == IF "pages" \in DOMAIN e.fields THEN Text(dashify(e.fields["pages"])) ELSE Raise

date(e) == words(<<optional_field(e, "month"), field(e, "year")>>)

\* the name style is the library's; a person renders as "first last"
format_name(p) == IF p.first = <<>> THEN p.last ELSE p.first \o <<" ">> \o p.last

names(e, role) ==
  IF role \in DOMAIN e.persons
  THEN joinx(<<",", " ">>, <<" ", "a", "n", "d", " ">>, <<",", " ", "a", "n", "d", " ">>,
             [i \in 1..Len(e.persons[role]) |-> Text(format_name(e.persons[role][i]))])
  ELSE Raise

Lit(s) == Text(s)

(* ------------------------------------------- inherited (unsrt/plain) style *)
\* mutant: the name list is returned bare whatever as_sentence says
format_names_bare(e, role, as_sentence) == names(e, role)

\* format_names(role, as_sentence=True)
format_names(e, role, as_sentence) ==
  IF as_sentence THEN sentence(<<names(e, role)>>) ELSE names(e, role)

format_editor(e, as_sentence) ==
  IF "editor" \notin DOMAIN e.persons THEN names(e, "editor")
  ELSE LET word == IF Len(e.persons["editor"]) > 1
                   THEN <<"e", "d", "i", "t", "o", "r", "s">>
                   ELSE <<"e", "d", "i", "t", "o", "r">>
           r == join(<<",", " ">>, <<names(e, "editor"), Lit(word)>>)
       IN IF as_sentence THEN sentence(<<r>>) ELSE r

format_btitle(e, which_field, as_sentence) ==
  LET r == tag("em", field(e, which_field))
  IN IF as_sentence THEN sentence(<<r>>) ELSE r

format_volume_and_series(e, as_sentence) ==
  LET volume_and_series ==
        optional(words(<<Lit(<<"v", "o", "l", "u", "m", "e">>), field(e, "volume"),
                         optional(words(<<Lit(<<"o", "f">>), field(e, "series")>>))>>))
      number_and_series ==
        optional(words(<<join(Symbol("nbsp").t,
                              <<Lit(<<"n", "u", "m", "b", "e", "r">>), field(e, "number")>>),
                         optional(words(<<Lit(<<"i", "n">>), field(e, "series")>>))>>))
      r == first_of(<<volume_and_series, number_and_series, optional_field(e, "series")>>)
  IN IF as_sentence THEN sentence(<<r>>) ELSE r

format_address_organization_publisher_date(e) ==
  first_of(<<
    optional(join(<<" ">>,
      <<sentence(<<field(e, "address"), date(e)>>),
        sentence(<<optional_field(e, "organization"), optional_field(e, "publisher")>>)>>)),
    sentence(<<optional_field(e, "organization"), optional_field(e, "publisher"), date(e)>>)>>)

format_web_refs(e) ==
  sentence(<<optional(words(<<Lit(<<"U", "R", "L", ":">>), field(e, "url")>>)),
             optional(words(<<Lit(<<"d", "o", "i", ":">>), field(e, "doi")>>))>>)

\* the inherited layout used for every other entry type
format_misc(e) ==
  toplevel(<<
    optional(sentence(<<format_names(e, "author", TRUE)>>)),
    optional(sentence(<<field(e, "title")>>)),
    sentence(<<optional(field(e, "howpublished")), optional(date(e))>>),
    sentence(<<optional_field(e, "note")>>),
    format_web_refs(e)>>)

(* ------------------------------------------------------------ CustomStyle *)
format_bold_title(e, which_field, as_sentence) ==
  LET formatted_title == tag("strong", field(e, which_field))
  IN IF as_sentence THEN sentence(<<formatted_title>>) ELSE formatted_title

format_inproceedings(e) ==
  toplevel(<<
    format_bold_title(e, "title", TRUE),
    Symbol("newline"),
    sentence(<<format_names(e, "author", TRUE)>>),
    Symbol("newline"),
    words(<<Lit(<<"I", "n">>),
            sentence(<<optional(format_editor(e, FALSE)),
                       format_btitle(e, "booktitle", FALSE),
                       format_volume_and_series(e, FALSE)>>),
            format_address_organization_publisher_date(e)>>),
    sentence(<<optional_field(e, "note")>>),
    format_web_refs(e)>>)

\* mutant: the two candidates in the opposite priority order
volume_and_pages_swapped(e) ==
  first_of(<<
    optional(words(<<Lit(<<"p", "a", "g", "e", "s">>), pages(e)>>)),
    join(<<>>, <<field(e, "volume"),
                 optional(join(<<>>, <<Lit(<<"(">>), field(e, "number"), Lit(<<")">>)>>)),
                 Lit(<<":">>), pages(e)>>)>>)

volume_and_pages(e) ==
  first_of(<<
    optional(join(<<>>, <<field(e, "volume"),
                          optional(join(<<>>, <<Lit(<<"(">>), field(e, "number"), Lit(<<")">>)>>)),
                          Lit(<<":">>), pages(e)>>)),
    words(<<Lit(<<"p", "a", "g", "e", "s">>), pages(e)>>)>>)

format_article(e) ==
  toplevel(<<
    format_bold_title(e, "title", TRUE),
    Symbol("newline"),
    format_names(e, "author", TRUE),
    Symbol("newline"),
    sentence(<<tag("em", field(e, "journal")),
               optional(volume_and_pages(e)),
               date(e)>>),
    sentence(<<optional_field(e, "note")>>),
    format_web_refs(e)>>)

format_techreport(e) ==
  toplevel(<<
    format_bold_title(e, "title", TRUE),
    Symbol("newline"),
    sentence(<<format_names(e, "author", TRUE)>>),
    Symbol("newline"),
    sentence(<<words(<<first_of(<<optional_field(e, "type"),
                                  Lit(<<"T", "e", "c", "h", "n", "i", "c", "a", "l", " ",
                                        "R", "e", "p", "o", "r", "t">>)>>),
                       optional_field(e, "number")>>),
               field(e, "institution"),
               optional_field(e, "address"),
               date(e)>>),
    sentence(<<optional_field(e, "note")>>),
    format_web_refs(e)>>)

\* format_entry: dispatch on the entry type
format_entry(e) ==
  IF e.type = "article" THEN format_article(e)
  ELSE IF e.type = "inproceedings" THEN format_inproceedings(e)
  ELSE IF e.type = "techreport" THEN format_techreport(e)
  ELSE format_misc(e)

(* ------------------------------------------------------------ HTML backend *)
\* html.Backend symbols, with 'newline' replaced by '<br>'
RenderToken(tok) ==
  CASE tok = "@newline" -> <<"<br>">>
    [] tok = "@ndash" -> <<"&ndash;">>
    [] tok = "@nbsp" -> <<"&nbsp;">>
    [] tok = "@strong[" -> <<"<strong>">>
    [] tok = "]strong@" -> <<"</strong>">>
    [] tok = "@em[" -> <<"<em>">>
    [] tok = "]em@" -> <<"</em>">>
    [] tok = "&" -> <<"&amp;">>
    [] OTHER -> <<tok>>

render(t) == Flatten([i \in 1..Len(t) |-> RenderToken(t[i])])

(* ------------------------------------------------- parser, sorting, writer *)
Get(e, f) == IF f \in DOMAIN e.fields THEN e.fields[f] ELSE None

\* Parser().parse_file: IOError for an unreadable file, PybtexError for bad
\* syntax or a repeated entry key, otherwise the entries in file order
parse_file(file) ==
  IF file.kind = "unreadable" THEN [status |-> "IOError", msg |-> "no such file", entries |-> <<>>]
  ELSE IF file.kind = "malformed" THEN [status |-> "PybtexError", msg |-> "syntax error", entries |-> <<>>]
  ELSE IF \E i, j \in 1..Len(file.entries) : i < j /\ file.entries[i].key = file.entries[j].key
  THEN [status |-> "PybtexError", msg |-> "repeated bibliography entry", entries |-> <<>>]
  ELSE [status |-> "ok", msg |-> "", entries |-> file.entries]

person_key(p) == p.last \o <<" ", " ">> \o p.first \o <<" ", " ">>

\* author_year_title, the sorting style of plain.Style
sorting_key(e) ==
  << IF "author" \in DOMAIN e.persons
     THEN JoinTexts([i \in 1..Len(e.persons["author"]) |-> person_key(e.persons["author"][i])],
                    <<" ", " ", " ">>, <<" ", " ", " ">>, <<" ", " ", " ">>)
     ELSE <<>>,
     IF "year" \in DOMAIN e.fields THEN e.fields["year"] ELSE <<>>,
     IF "title" \in DOMAIN e.fields THEN e.fields["title"] ELSE <<>> >>

\* tuple comparison
TupleLess(a, b) ==
  \/ StrLess(a[1], b[1])
  \/ a[1] = b[1] /\ StrLess(a[2], b[2])
  \/ a[1] = b[1] /\ a[2] = b[2] /\ StrLess(a[3], b[3])

RECURSIVE SortedKeys(_)
SortedKeys(S) ==
  IF S = {} THEN <<>>
  ELSE LET m == CHOOSE k \in S : \A o \in S \ {k} : TupleLess(k, o)
       IN <<m>> \o SortedKeys(S \ {m})

\* BaseSortingStyle.sort: a dict from sorting key to entry, read in key order
style_sort(entries) ==
  LET entry_dict(k) ==
        entries[CHOOSE i \in 1..Len(entries) :
                  /\ sorting_key(entries[i]) = k
                  /\ \A j \in (i + 1)..Len(entries) : sorting_key(entries[j]) # k]
      sorted_keys == SortedKeys({sorting_key(entries[i]) : i \in 1..Len(entries)})
  IN [n \in 1..Len(sorted_keys) |-> entry_dict(sorted_keys[n])]

\* format_entries: the entries in the style's order, each with its text
format_entries(entries) ==
  LET sorted_entries == style_sort(entries)
  IN [n \in 1..Len(sorted_entries) |->
        [key |-> sorted_entries[n].key, text |-> format_entry(sorted_entries[n])]]

FieldOrder == <<"title", "year", "journal", "booktitle", "institution", "volume", "number",
                "pages", "note", "type", "address", "pdf", "slides", "poster">>

\* Writer().write_stream of the one-entry database
write_stream(key, e) ==
  <<"@", e.type, "{", key>>
  \o Flatten([i \in 1..Len(FieldOrder) |->
        IF FieldOrder[i] \in DOMAIN e.fields
        THEN <<",", FieldOrder[i], "=", "\"">> \o e.fields[FieldOrder[i]] \o <<"\"">>
        ELSE <<>>])
  \o <<"}">>

EntryOf(entries, key) == entries[CHOOSE i \in 1..Len(entries) : entries[i].key = key]

(* --------------------------------------------------------- add_publications *)
\* the tuple appended for one formatted entry
record_of(entries, formatted_entry) ==
  LET key == formatted_entry.key
      entry == EntryOf(entries, key)
  IN << key,
        Get(entry, "year"),
        render(formatted_entry.text.t),
        write_stream(key, entry),
        Get(entry, "pdf"),
        Get(entry, "slides"),
        Get(entry, "poster"),
        Get(entry, "type") >>

\* key comparison of list.sort: Python 2 orders None below every string,
\* Python 3 has no order between None and anything
KeyLess(x, y) ==
  IF x = None THEN y # None
  ELSE IF y = None THEN FALSE
  ELSE StrLess(x, y)

sort_raises(py, pubs) ==
  py = 3 /\ Len(pubs) >= 2 /\ \E i \in 1..Len(pubs) : pubs[i][2] = None

\* mutant: x goes in front of the records with an equal key
InsertDescUnstable(sorted, x) ==
  LET k == Cardinality({i \in 1..Len(sorted) : KeyLess(x[2], sorted[i][2])})
  IN SubSeq(sorted, 1, k) \o <<x>> \o SubSeq(sorted, k + 1, Len(sorted))

\* insert x behind every record whose key is not below the key of x
InsertDesc(sorted, x) ==
  LET k == Cardinality({i \in 1..Len(sorted) : ~KeyLess(sorted[i][2], x[2])})
  IN SubSeq(sorted, 1, k) \o <<x>> \o SubSeq(sorted, k + 1, Len(sorted))

\* publications.sort(key=itemgetter(1), reverse=True): stable, descending
RECURSIVE sort_reverse(_)
sort_reverse(pubs) ==
  IF pubs = <<>> THEN <<>>
  ELSE InsertDesc(sort_reverse(SubSeq(pubs, 1, Len(pubs) - 1)), pubs[Len(pubs)])

\* mutant: an empty list is not stored
set_publications_nonempty(ctx, publications) ==
  IF publications = <<>> THEN ctx
  ELSE [k \in DOMAIN ctx \cup {"publications"} |->
          IF k = "publications" THEN publications ELSE ctx[k]]

\* generator.context['publications'] = publications
set_publications(ctx, publications) ==
  [k \in DOMAIN ctx \cup {"publications"} |->
     IF k = "publications" THEN publications ELSE ctx[k]]

Returned(ctx, warnings) == [ctx |-> ctx, log |-> warnings, exc |-> "none"]

Raised(ctx, exc) == [ctx |-> ctx, log |-> <<>>, exc |-> exc]

\* mutant: an empty list is stored when the setting is missing
not_configured_empty(ctx) ==
  Returned([k \in DOMAIN ctx \cup {"publications"} |->
              IF k = "publications" THEN <<>> ELSE ctx[k]], <<>>)

not_configured(ctx) == Returned(ctx, <<>>)

dependency_missing(ctx) ==
  Returned(ctx, << <<"pelican_bibtex failed to load dependency pybtex">> >>)

\* mutant: the parser error is not caught
parse_failed_uncaught(ctx, refs_file, err) == Raised(ctx, "PybtexError")

parse_failed(ctx, refs_file, err) ==
  Returned(ctx, << <<"pelican_bibtex failed to parse file ", refs_file, ": ", err>> >>)

\* mutant: an entry that fails to format is skipped
publish_partial(ctx, py, entries) ==
  LET formatted_entries == SelectSeq(format_entries(entries), LAMBDA f : f.text.ok)
      publications == [n \in 1..Len(formatted_entries) |->
                         record_of(entries, formatted_entries[n])]
  IN IF sort_raises(py, publications) THEN Raised(ctx, "TypeError")
     ELSE Returned(set_publications(ctx, sort_reverse(publications)), <<>>)

\* the loop over the formatted entries, the sort and the context write
publish(ctx, py, entries) ==
  LET formatted_entries == format_entries(entries)
      publications == [n \in 1..Len(formatted_entries) |->
                         record_of(entries, formatted_entries[n])]
  IN IF \E n \in 1..Len(formatted_entries) : ~formatted_entries[n].text.ok
     THEN Raised(ctx, "FieldIsMissing")
     ELSE IF sort_raises(py, publications) THEN Raised(ctx, "TypeError")
     ELSE Returned(set_publications(ctx, sort_reverse(publications)), <<>>)

add_publications(settings, pybtex, py, file, ctx) ==
  IF "PUBLICATIONS_SRC" \notin DOMAIN settings THEN not_configured(ctx)
  ELSE IF pybtex # "full" THEN dependency_missing(ctx)
  ELSE LET refs_file == settings["PUBLICATIONS_SRC"]
           bibdata_all == parse_file(file)
       IN IF bibdata_all.status = "PybtexError"
          THEN parse_failed(ctx, refs_file, bibdata_all.msg)
          ELSE IF bibdata_all.status = "IOError" THEN Raised(ctx, "IOError")
          ELSE publish(ctx, py, bibdata_all.entries)

(* ------------------------------------------------------------------ inputs *)
Bee == [first |-> <<"A", ".">>, last |-> <<"B", "e", "e">>]
Zed == [first |-> <<"Z", ".">>, last |-> <<"Z", "e", "d">>]
Old == [first |-> <<"O", ".">>, last |-> <<"O", "l", "d", " ", "J", "r", ".">>]

Y2021 == <<"2", "0", "2", "1">>
Y2019 == <<"2", "0", "1", "9">>
Y999 == <<"9", "9", "9">>
Foo == <<"F", "o", "o">>
Bar == <<"B", "a", "r">>
Link == <<"a", ".", "d">>

Entry(key, type, authors, fields) ==
  [key |-> key, type |-> type,
   persons |-> IF authors = <<>> THEN <<>> ELSE [r \in {"author"} |-> authors],
   fields |-> fields]

\* the entries bibliography files are made of
Catalogue ==
  { Entry("a", "article", <<Zed>>,
          ("title" :> Foo) @@ ("journal" :> <<"J">>) @@ ("year" :> Y2021) @@ ("pdf" :> Link)),
    Entry("b", "article", <<Bee>>,
          ("title" :> Bar) @@ ("journal" :> <<"J">>) @@ ("year" :> Y2021)
          @@ ("volume" :> <<"4">>) @@ ("pages" :> <<"1", "-", "9">>)),
    Entry("c", "inproceedings", <<Bee, Zed>>,
          ("title" :> Bar) @@ ("booktitle" :> <<"B">>) @@ ("year" :> Y2019)
          @@ ("slides" :> Link)),
    Entry("d", "misc", <<Bee>>, ("title" :> Foo) @@ ("poster" :> Link)),
    Entry("e", "techreport", <<Bee>>,
          ("title" :> Foo) @@ ("year" :> Y2021) @@ ("type" :> <<"r">>)),
    Entry("f", "article", <<Zed>>,
          ("title" :> Foo) @@ ("journal" :> <<"J">>) @@ ("year" :> Y2021)),
    Entry("a", "misc", <<Old>>, ("title" :> Bar) @@ ("year" :> Y999)) }

RECURSIVE SeqsUpTo(_, _)
SeqsUpTo(S, n) ==
  IF n = 0 THEN {<<>>}
  ELSE LET shorter == SeqsUpTo(S, n - 1)
       IN shorter \cup {Append(s, x) : s \in {t \in shorter : Len(t) = n - 1}, x \in S}

Files ==
  {[kind |-> "unreadable", entries |-> <<>>], [kind |-> "malformed", entries |-> <<>>]}
  \cup {[kind |-> "bib", entries |-> es] : es \in SeqsUpTo(Catalogue, MaxEntries)}

RefsFile == "refs.bib"

Settings == {[k \in {"PATH"} |-> "content"],
             [k \in {"PATH", "PUBLICATIONS_SRC"} |-> IF k = "PATH" THEN "content" ELSE RefsFile]}

\* the context the generator hands over, without a 'publications' key
Ctx0 == [k \in {"SITENAME"} |-> << <<"site">> >>]

(* ------------------------------------------------------------------- state *)
VARIABLES pc, settings, pybtex, py, file, context, log, raised, fires

vars == <<pc, settings, pybtex, py, file, context, log, raised, fires>>

env == <<settings, pybtex, py, file>>

Init ==
  /\ pc = "start"
  /\ settings \in Settings
  /\ pybtex \in {"none", "partial", "full"}
  /\ py \in {2, 3}
  /\ file \in Files
  /\ context = Ctx0
  /\ log = <<>>
  /\ raised = "none"
  /\ fires = 0

\* importing the plugin module: the module level imports of pybtex
LoadModule ==
  /\ pc = "start"
  /\ IF pybtex = "none"
     THEN pc' = "crashed" /\ raised' = "ImportError"
     ELSE pc' = "loaded" /\ raised' = raised
  /\ UNCHANGED <<env, context, log, fires>>

\* register(): connect add_publications to generator_init
Register ==
  /\ pc = "loaded"
  /\ pc' = "registered"
  /\ UNCHANGED <<env, context, log, raised, fires>>

\* generator_init fires for a generator and calls add_publications
AddPublications ==
  /\ pc = "registered"
  /\ fires < MaxFires
  /\ LET out == add_publications(settings, pybtex, py, file, context)
     IN /\ context' = out.ctx
        /\ log' = log \o out.log
        /\ raised' = out.exc
        /\ pc' = IF out.exc = "none" THEN "registered" ELSE "crashed"
  /\ fires' = fires + 1
  /\ UNCHANGED env

Next == LoadModule \/ Register \/ AddPublications

Spec == Init /\ [][Next]_vars

(* --------------------------------------- one-entry files for the templates *)
Types == {"article", "inproceedings", "techreport", "misc"}

AuthorLists == {<<>>, <<Bee>>, <<Old>>, <<Bee, Zed>>}

\* the values a field takes when it is present
FieldValues ==
  [title |-> {Foo, <<"F", "o", "o", "?">>},
   year |-> {Y2021},
   venue |-> {<<"J">>},
   volume |-> {<<"4">>},
   number |-> {<<"2">>},
   pages |-> {<<"1">>, <<"1", "-", "-", "9">>},
   note |-> {<<"r", "e", "a", "d">>},
   type |-> {<<"r">>},
   address |-> {<<"Z">>}]

VenueField(type) ==
  IF type = "article" THEN "journal"
  ELSE IF type = "inproceedings" THEN "booktitle"
  ELSE IF type = "techreport" THEN "institution"
  ELSE "howpublished"

Opt(f) == {None} \cup FieldValues[f]

\* ch gives every field name a value or None
FieldsOf(type, ch) ==
  [f \in {IF g = "venue" THEN VenueField(type) ELSE g : g \in {h \in DOMAIN ch : ch[h] # None}} |->
     IF f = VenueField(type) THEN ch["venue"] ELSE ch[f]]

Universe ==
  {Entry("k", type, authors,
         FieldsOf(type, [title |-> ti, year |-> ye, venue |-> ve, volume |-> vo, number |-> nu,
                         pages |-> pa, note |-> no, type |-> ty, address |-> ad])) :
     type \in Types, authors \in AuthorLists,
     ti \in Opt("title"), ye \in Opt("year"), ve \in Opt("venue"), vo \in Opt("volume"),
     nu \in Opt("number"), pa \in Opt("pages"), no \in Opt("note"), ty \in Opt("type"),
     ad \in Opt("address")}

InitFmt ==
  /\ pc = "start"
  /\ settings \in {st \in Settings : "PUBLICATIONS_SRC" \in DOMAIN st}
  /\ pybtex = "full"
  /\ py = 3
  /\ file \in {[kind |-> "bib", entries |-> <<e>>] : e \in Universe}
  /\ context = Ctx0
  /\ log = <<>>
  /\ raised = "none"
  /\ fires = 0

SpecFmt == InitFmt /\ [][Next]_vars

(* ------------------------------------------------------------- properties *)
Configured == "PUBLICATIONS_SRC" \in DOMAIN settings

Published == "publications" \in DOMAIN context

Pubs == context["publications"]

Entries == file.entries

DistinctKeys ==
  \A i, j \in 1..Len(Entries) : i # j => Entries[i].key # Entries[j].key

\* the handler ran and got as far as a parsed database
Parsed == Configured /\ pybtex = "full" /\ file.kind = "bib" /\ DistinctKeys /\ fires >= 1

OthersKept ==
  \A k \in DOMAIN Ctx0 : k \in DOMAIN context /\ context[k] = Ctx0[k]

PosInFile(key) == CHOOSE i \in 1..Len(Entries) : Entries[i].key = key

PosFormatted(key) ==
  CHOOSE n \in 1..Len(format_entries(Entries)) : format_entries(Entries)[n].key = key

YearDescending ==
  \A i, j \in 1..Len(Pubs) : i < j => ~KeyLess(Pubs[i][2], Pubs[j][2])

\* C1 as stated: the published list is in year-descending order and
\* records with equal year keep the order of their entries in the file
C1_ParseOrderStable ==
  Published =>
    /\ YearDescending
    /\ \A i, j \in 1..Len(Pubs) :
         (i < j /\ Pubs[i][2] = Pubs[j][2]) => PosInFile(Pubs[i][1]) < PosInFile(Pubs[j][1])

\* C1 amended: the published list is in year-descending order and records
\* with equal year keep the order in which format_entries yielded them
C1_FormattedOrderStable ==
  Published =>
    /\ YearDescending
    /\ \A i, j \in 1..Len(Pubs) :
         (i < j /\ Pubs[i][2] = Pubs[j][2]) => PosFormatted(Pubs[i][1]) < PosFormatted(Pubs[j][1])

C1_Witness ==
  /\ Published
  /\ Len(Pubs) = 3
  /\ Pubs[1][2] = Pubs[2][2]
  /\ KeyLess(Pubs[3][2], Pubs[2][2])
  /\ PosInFile(Pubs[1][1]) > PosInFile(Pubs[2][1])

SlotsFrom(r, e) ==
  /\ r[2] = Get(e, "year")
  /\ r[5] = Get(e, "pdf")
  /\ r[6] = Get(e, "slides")
  /\ r[7] = Get(e, "poster")
  /\ r[8] = Get(e, "type")

\* C2: a published list has one record per entry of the database, with
\* pairwise distinct keys, each filled from the one entry that has its key
C2_OneRecordPerEntry ==
  Published =>
    /\ Len(Pubs) = Len(Entries)
    /\ \A i, j \in 1..Len(Pubs) : i # j => Pubs[i][1] # Pubs[j][1]
    /\ \A i \in 1..Len(Pubs) :
         /\ Cardinality({n \in 1..Len(Entries) : Entries[n].key = Pubs[i][1]}) = 1
         /\ \A n \in 1..Len(Entries) :
              Entries[n].key = Pubs[i][1] => SlotsFrom(Pubs[i], Entries[n])

\* C3: without the PUBLICATIONS_SRC setting the handler returns with the
\* context as it was, no 'publications' key, no warning and no exception
C3_NotConfiguredNoOp ==
  (~Configured /\ fires >= 1) =>
    /\ ~Published
    /\ context = Ctx0
    /\ log = <<>>
    /\ raised = "none"

C3_Witness == ~Configured /\ fires >= 1 /\ pc = "registered"

\* C4 as stated: a database without entries leaves the context unmodified
C4_EmptyIsNoOp ==
  (Parsed /\ Entries = <<>>) => (context = Ctx0 /\ raised = "none")

\* C4 amended: a database without entries stores the empty list under
\* 'publications', keeps every other key, logs nothing and raises nothing
C4_EmptyStoresEmptyList ==
  (Parsed /\ Entries = <<>>) =>
    /\ Published
    /\ Pubs = <<>>
    /\ DOMAIN context = DOMAIN Ctx0 \cup {"publications"}
    /\ OthersKept
    /\ log = <<>>
    /\ raised = "none"

C4_Witness == Parsed /\ Entries = <<>> /\ pc = "registered"

ParseError ==
  \/ file.kind = "malformed"
  \/ file.kind = "bib" /\ ~DistinctKeys

Contains(msg, part) == \E i \in 1..Len(msg) : msg[i] = part

\* C5: a parser error gives one warning per call, naming the path and the
\* parser's message; the call returns and the context stays as it was
C5_ParseErrorWarns ==
  (Configured /\ pybtex = "full" /\ ParseError /\ fires >= 1) =>
    /\ Len(log) = fires
    /\ \A i \in 1..Len(log) :
         Contains(log[i], RefsFile) /\ Contains(log[i], parse_file(file).msg)
    /\ raised = "none"
    /\ pc = "registered"
    /\ context = Ctx0

C5_Witness ==
  /\ Configured /\ pybtex = "full" /\ fires = 1
  /\ file.kind = "bib" /\ ~DistinctKeys
  /\ Len(log) = 1

\* C6: without pybtex, loading, registering and firing end in a warning
\* and nothing else: no exception, the context as it was
C6_MissingPybtexWarns ==
  (pybtex = "none" /\ pc # "start") =>
    /\ raised = "none"
    /\ context = Ctx0
    /\ (fires >= 1 => Len(log) >= 1)

SomeFormatFails ==
  \E n \in 1..Len(format_entries(Entries)) : ~format_entries(Entries)[n].text.ok

\* C7: when an entry fails to format, the failure leaves the handler and
\* nothing is published
C7_FormatFailureFatal ==
  (Parsed /\ SomeFormatFails) =>
    /\ raised = "FieldIsMissing"
    /\ pc = "crashed"
    /\ ~Published
    /\ context = Ctx0

C7_Witness ==
  /\ Parsed /\ Len(Entries) = 3
  /\ ~format_entry(Entries[2]).ok
  /\ format_entry(Entries[1]).ok /\ format_entry(Entries[3]).ok
  /\ raised = "FieldIsMissing"

\* C8: a database of entries that all format, some with and some without a
\* year, is published with every dated record before every undated one
C8_AbsentYearLast ==
  ( /\ Parsed
    /\ \A n \in 1..Len(Entries) : format_entry(Entries[n]).ok
    /\ \E n \in 1..Len(Entries) : "year" \in DOMAIN Entries[n].fields
    /\ \E n \in 1..Len(Entries) : "year" \notin DOMAIN Entries[n].fields ) =>
    /\ Published
    /\ \A i, j \in 1..Len(Pubs) : (Pubs[i][2] # None /\ Pubs[j][2] = None) => i < j

(* the rendered text cut at the line breaks *)
RECURSIVE Blocks(_)
Blocks(t) ==
  IF t = <<>> THEN <<>>
  ELSE IF Head(t) = "<br>" THEN Blocks(Tail(t))
  ELSE LET n == IF \E i \in 1..Len(t) : t[i] = "<br>"
                THEN (CHOOSE i \in 1..Len(t) : t[i] = "<br>" /\ \A j \in 1..(i - 1) : t[j] # "<br>") - 1
                ELSE Len(t)
       IN <<SubSeq(t, 1, n)>> \o Blocks(SubSeq(t, n + 1, Len(t)))

TheEntry == Entries[1]

Has(f) == f \in DOMAIN TheEntry.fields

Terminated(t) == t # <<>> /\ t[Len(t)] \in {".", "?", "!"}

WithPeriod(t) == IF Terminated(t) THEN t ELSE t \o <<".">>

ExpectedVolumePages ==
  IF Has("volume") /\ Has("pages")
  THEN TheEntry.fields["volume"]
       \o (IF Has("number") THEN <<"(">> \o TheEntry.fields["number"] \o <<")">> ELSE <<>>)
       \o <<":">> \o render(dashify(TheEntry.fields["pages"]))
  ELSE IF Has("pages")
  THEN <<"p", "a", "g", "e", "s", " ">> \o render(dashify(TheEntry.fields["pages"]))
  ELSE <<>>

\* C9: an article with title, author, journal and year formats whatever
\* volume, number and pages it has, and its venue sentence carries
\* "volume(number):pages", else "pages <pages>", else no such clause
C9_FirstAvailable ==
  ( /\ Parsed /\ Len(Entries) = 1 /\ TheEntry.type = "article"
    /\ Has("title") /\ Has("journal") /\ Has("year")
    /\ "author" \in DOMAIN TheEntry.persons ) =>
    /\ Published
    /\ Len(Blocks(Pubs[1][3])) >= 3
    /\ Blocks(Pubs[1][3])[3] =
         <<"<em>">> \o TheEntry.fields["journal"] \o <<"</em>">>
         \o (IF ExpectedVolumePages = <<>> THEN <<>> ELSE <<",", " ">> \o ExpectedVolumePages)
         \o <<",", " ">> \o TheEntry.fields["year"] \o <<".">>

C9_Witness ==
  /\ Parsed /\ Len(Entries) = 1 /\ TheEntry.type = "article" /\ Published
  /\ ~Has("volume") /\ Has("number") /\ Has("pages")

ExpectedNames ==
  LET ps == TheEntry.persons["author"]
      nm(i) == ps[i].first \o <<" ">> \o ps[i].last
  IN IF Len(ps) = 1 THEN nm(1) ELSE nm(1) \o <<" ", "a", "n", "d", " ">> \o nm(2)

\* C10: in each of the three layouts the text is the bold title sentence,
\* a line break, the name list ended as a sentence, a line break, the rest
C10_AuthorSentence ==
  ( /\ Parsed /\ Len(Entries) = 1 /\ Published
    /\ TheEntry.type \in {"article", "inproceedings", "techreport"} ) =>
    /\ Len(Blocks(Pubs[1][3])) >= 3
    /\ Blocks(Pubs[1][3])[1] =
         <<"<strong>">> \o TheEntry.fields["title"] \o <<"</strong>">>
         \o (IF Terminated(TheEntry.fields["title"]) THEN <<>> ELSE <<".">>)
    /\ Blocks(Pubs[1][3])[2] = WithPeriod(ExpectedNames)
    /\ Terminated(Blocks(Pubs[1][3])[2])

C10_Witness ==
  /\ Parsed /\ Len(Entries) = 1 /\ Published
  /\ TheEntry.type = "article"
  /\ TheEntry.persons["author"] = <<Bee>>
====
